---- MODULE Spec2Model ----
(***************************************************************************)
(* Model of the opponent-modelling core of ADAgent:                        *)
(*   agents/ada_agent/opponent_model.py  (OpponentModel, Issue)            *)
(*   agents/ada_agent/learning_model.py  (LearningModel)                   *)
(*                                                                         *)
(* Python floats are modelled as exact rationals [n, d, e] standing for    *)
(* n / (d * 10^e); every value a reachable state holds has e = 0 and is in *)
(* lowest terms, so equal numbers are equal records.  Rounding, overflow   *)
(* and underflow of IEEE doubles are outside the model.                    *)
(***************************************************************************)
EXTENDS Integers, Sequences, FiniteSets, TLC

VARIABLES
    offers,         \* OpponentModel.offers
    weight,         \* issue -> Issue.weight
    value_weights,  \* issue -> (value -> Issue.value_weights[value])
    q_table,        \* OpponentModel.q_table, a function on the keys written
    delivered,      \* counterpart offers handed to the model so far (caller)
    observed,       \* number of Issue.update calls made so far
    received_bids,  \* LearningModel.received_bids
    my_bids,        \* LearningModel.my_bids
    data,           \* LearningModel.data, the key/value pairs in insertion order
    agreement,      \* accepted_bid, opponent_accepted, acceptance_time once set
    fs,             \* the snapshot files on disk: path -> content
    lastSave,       \* (storage_dir, opponent) -> the latest save_data call for it
    loaded,         \* what this session's latest load_data returned
    persisted,      \* save_data has been called on this session object
    saves,          \* number of save_data calls made
    call,           \* the most recent call and its arguments
    err,            \* exception raised by the most recent call, or "none"
    ret             \* value returned by the most recent call

omvars == <<offers, weight, value_weights, q_table>>
lmvars == <<received_bids, my_bids, data, agreement>>
histvars == <<fs, lastSave, loaded, persisted, saves>>
auxvars == <<delivered, observed, lmvars, histvars>>
vars == <<offers, weight, value_weights, q_table, delivered, observed, received_bids,
          my_bids, data, agreement, fs, lastSave, loaded, persisted, saves,
          call, err, ret>>

----------------------------------------------------------------------------
(* Bounds *)

\* update calls with two non-null bids explored from arbitrary arguments
MaxUpdates == 2
\* counterpart offers delivered in order
MaxDelivered == 5
\* Issue.update calls
MaxObserved == 3
\* entries of the two offer logs of a session, taken together
MaxBids == 2
\* save_data calls
MaxSaves == 2

----------------------------------------------------------------------------
(* Exact arithmetic standing for Python float arithmetic *)

Abs(x) == IF x < 0 THEN -x ELSE x

RECURSIVE GCD(_, _)
GCD(a, b) == IF b = 0 THEN a ELSE GCD(b, a % b)

RECURSIVE Pow10(_)
Pow10(k) == IF k = 0 THEN 1 ELSE 10 * Pow10(k - 1)

Norm(n, d, e) ==
    IF n = 0 THEN [n |-> 0, d |-> 1, e |-> 0]
    ELSE LET g == GCD(Abs(n), Abs(d))
             s == IF d < 0 THEN -1 ELSE 1
         IN  [n |-> s * (n \div g), d |-> s * (d \div g), e |-> e]

Rat(n, d) == Norm(n, d, 0)
Zero == Rat(0, 1)
One == Rat(1, 1)

\* common denominators are formed from the least common multiple and products
\* are reduced crosswise, so that no intermediate value exceeds the result
RAdd(a, b) ==
    LET E == IF a.e > b.e THEN a.e ELSE b.e
        an == a.n * Pow10(E - a.e)
        bn == b.n * Pow10(E - b.e)
        g == GCD(a.d, b.d)
    IN  Norm(an * (b.d \div g) + bn * (a.d \div g), (a.d \div g) * b.d, E)

RNeg(a) == [a EXCEPT !.n = -a.n]
RSub(a, b) == RAdd(a, RNeg(b))

RMul(a, b) ==
    IF a.n = 0 \/ b.n = 0 THEN Norm(0, 1, 0)
    ELSE LET g1 == GCD(Abs(a.n), b.d)
             g2 == GCD(Abs(b.n), a.d)
         IN  Norm((a.n \div g1) * (b.n \div g2), (a.d \div g2) * (b.d \div g1), a.e + b.e)

\* a / b for b # 0
RDiv(a, b) ==
    IF a.n = 0 THEN Norm(0, 1, 0)
    ELSE LET g1 == GCD(Abs(a.n), Abs(b.n))
             g2 == GCD(a.d, b.d)
             n == (a.n \div g1) * (b.d \div g2)
             d == (a.d \div g2) * (b.n \div g1)
         IN  IF b.e >= a.e
             THEN Norm(n * Pow10(b.e - a.e), d, 0)
             ELSE Norm(n, d, a.e - b.e)

RLess(a, b) == RSub(a, b).n < 0
RLeq(a, b) == RSub(a, b).n <= 0

\* max(...) of a non-empty finite set of numbers
RMax(S) == CHOOSE m \in S : \A x \in S : RLeq(x, m)

RECURSIVE RSumSet(_, _)
\* sum of f[k] over k in S
RSumSet(f, S) ==
    IF S = {} THEN Zero
    ELSE LET k == CHOOSE x \in S : TRUE
         IN  RAdd(f[k], RSumSet(f, S \ {k}))

----------------------------------------------------------------------------
(* The domain handed to the constructor *)

\* domain.getIssues(), in enumeration order
Issues == <<"price", "quantity">>
IssueSet == {Issues[i] : i \in 1..Len(Issues)}

\* domain.getValues(issue)
Values(issue) ==
    IF issue = "price" THEN {"10", "20"} ELSE {"1", "2"}

NoValue == "None"

\* a null bid
None == [i \in {} |-> NoValue]

\* the complete bids of the domain
Bids == {b \in [IssueSet -> {"10", "20", "1", "2"}] :
            \A i \in IssueSet : b[i] \in Values(i)}

\* Bid.getValue(issue)
GetValue(bid, issue) == IF issue \in DOMAIN bid THEN bid[issue] ELSE NoValue

\* the elapsed-time fractions get_time(progress) may return
TimeSet == {Rat(1, 10), Rat(2, 3), Rat(1, 1)}

\* constructor default of alpha
Alpha == Rat(1, 10)

\* initial value weight 0.0 + 1e-10
Epsilon == [n |-> 1, d |-> 1, e |-> 10]

\* the bids tried with arbitrary update arguments
UpdateBids == {b \in Bids : ~(b["price"] = "20" /\ b["quantity"] = "2")}
\* the <<reward, learning_rate>> arguments tried
QParams == {<<Rat(1, 1), Rat(1, 2)>>, <<Rat(-1, 1), Rat(1, 1)>>, <<Rat(1, 1), Rat(1, 1)>>}
\* the discount_factor arguments tried
DiscountSet == {Rat(9, 10)}
\* elapsed-time fractions tried with arbitrary update arguments
UpdateTimeSet == {Rat(1, 10)}

----------------------------------------------------------------------------
(* class Issue *)

\* Issue.__init__: every declared value starts at epsilon, weight is 1.0
IssueInitValueWeights(issue) == [v \in Values(issue) |-> Epsilon]
IssueInitWeight == One

\* variant: the issue weight is left out of the product
IssueGetUtilityUnweighted(w, vw, value) ==
    IF value = NoValue THEN Zero ELSE vw[value]

\* Issue.update(value)
IssueUpdate(vw, value) ==
    IF value = NoValue THEN vw
    ELSE [vw EXCEPT ![value] = RAdd(vw[value], One)]

\* Issue.get_utility(value)
IssueGetUtility(w, vw, value) ==
    IF value = NoValue THEN Zero ELSE RMul(w, vw[value])

----------------------------------------------------------------------------
(* class OpponentModel *)

\* variant: value weights divided by the issue's minimum instead of its maximum
NormalizeValueWeightsByMin(vws) ==
    [i \in IssueSet |->
        LET S == {vws[i][v] : v \in DOMAIN vws[i]}
            min_val == CHOOSE m \in S : \A x \in S : RLeq(m, x)
        IN  [v \in DOMAIN vws[i] |-> RDiv(vws[i][v], min_val)]]

\* first pass of normalize(): value weights divided by the issue's maximum
NormalizeValueWeights(vws) ==
    [i \in IssueSet |->
        LET max_val == RMax({vws[i][v] : v \in DOMAIN vws[i]})
        IN  [v \in DOMAIN vws[i] |-> RDiv(vws[i][v], max_val)]]

\* total_issue_weight accumulated by the first pass
TotalIssueWeight(w) == RSumSet(w, IssueSet)

\* does the second pass of normalize() divide by zero
NormalizeRaises(w) == TotalIssueWeight(w) = Zero

\* second pass of normalize(): issue weights divided by their sum
NormalizeIssueWeights(w) ==
    IF NormalizeRaises(w) THEN w
    ELSE [i \in IssueSet |-> RDiv(w[i], TotalIssueWeight(w))]

\* increment alpha * (1.0 - t * 3)
Increment(t) == RMul(Alpha, RSub(One, RMul(t, Rat(3, 1))))

\* update_issue_weights(), given self.offers after the append
UpdateIssueWeights(ofs, w, t) ==
    IF Len(ofs) < 2 THEN w
    ELSE LET b0 == ofs[Len(ofs) - 1]
             b1 == ofs[Len(ofs)]
         IN  [i \in IssueSet |->
                IF GetValue(b0, i) = GetValue(b1, i)
                THEN RAdd(w[i], Increment(t))
                ELSE w[i]]

\* get_state_representation(bid)
GetStateRepresentation(bid) == <<GetValue(bid, "price"), GetValue(bid, "quantity")>>

\* bid.getValue(list(domain.getIssues())[0])
ActionOf(bid) == GetValue(bid, Issues[1])

\* q_table.get(key, 0.0)
QGet(q, key) == IF key \in DOMAIN q THEN q[key] ELSE Zero

\* max over the first issue's values of Q[curr_state, a]
MaxQValue(q, curr_bid) ==
    RMax({QGet(q, <<GetStateRepresentation(curr_bid), a>>) : a \in Values(Issues[1])})

\* variant: the old value is kept whole instead of being scaled by 1 - lr
NewQValueNoDecay(q, prev_bid, curr_bid, reward, lr, df) ==
    RAdd(QGet(q, <<GetStateRepresentation(prev_bid), ActionOf(prev_bid)>>),
         RMul(lr, RAdd(reward, RMul(df, MaxQValue(q, curr_bid)))))

\* new_q_value
NewQValue(q, prev_bid, curr_bid, reward, lr, df) ==
    RAdd(RMul(RSub(One, lr), QGet(q, <<GetStateRepresentation(prev_bid), ActionOf(prev_bid)>>)),
         RMul(lr, RAdd(reward, RMul(df, MaxQValue(q, curr_bid)))))

\* variant: the table is rebuilt with the written entry only
QLearningUpdateFresh(q, prev_bid, curr_bid, reward, lr, df) ==
    LET key == <<GetStateRepresentation(prev_bid), ActionOf(prev_bid)>>
    IN  [k \in {key} |-> NewQValue(q, prev_bid, curr_bid, reward, lr, df)]

\* q_learning_update(prev_bid, curr_bid, reward, learning_rate, discount_factor)
QLearningUpdate(q, prev_bid, curr_bid, reward, lr, df) ==
    LET key == <<GetStateRepresentation(prev_bid), ActionOf(prev_bid)>>
        new_q_value == NewQValue(q, prev_bid, curr_bid, reward, lr, df)
    IN  [k \in DOMAIN q \cup {key} |-> IF k = key THEN new_q_value ELSE q[k]]

\* get_utility(bid)
GetUtility(w, vws, bid) ==
    IF bid = None THEN Zero
    ELSE LET u == [i \in IssueSet |-> IssueGetUtility(w[i], vws[i], GetValue(bid, i))]
         IN  RSumSet(u, IssueSet)

EmptyQ == [k \in {} |-> Zero]

NoArgs == [prev |-> None, curr |-> None, t |-> Zero, reward |-> Zero,
           lr |-> Zero, df |-> Zero, issue |-> NoValue, value |-> NoValue]
Call(op, args) == [op |-> op, args |-> args]

\* OpponentModel.__init__
ConstructOM ==
    /\ offers = <<>>
    /\ value_weights = NormalizeValueWeights([i \in IssueSet |-> IssueInitValueWeights(i)])
    /\ weight = NormalizeIssueWeights([i \in IssueSet |-> IssueInitWeight])
    /\ q_table = EmptyQ
    /\ delivered = <<>>
    /\ observed = 0

\* OpponentModel.update(prev_bid, curr_bid, reward, learning_rate, discount_factor)
\* called while get_time(progress) = t
Update(prev_bid, curr_bid, reward, lr, df, t) ==
    /\ call' = Call("update", [NoArgs EXCEPT !.prev = prev_bid, !.curr = curr_bid, !.t = t,
                                             !.reward = reward, !.lr = lr, !.df = df])
    /\ err' = "none"
    /\ ret' = Zero
    /\ IF prev_bid = None \/ curr_bid = None
       THEN UNCHANGED omvars
       ELSE /\ offers' = Append(offers, curr_bid)
            /\ weight' = UpdateIssueWeights(offers', weight, t)
            /\ q_table' = QLearningUpdate(q_table, prev_bid, curr_bid, reward, lr, df)
            /\ UNCHANGED value_weights

\* OpponentModel.normalize()
Normalize ==
    /\ call' = Call("normalize", NoArgs)
    /\ err' = IF NormalizeRaises(weight) THEN "ZeroDivisionError" ELSE "none"
    /\ ret' = Zero
    /\ value_weights' = NormalizeValueWeights(value_weights)
    /\ weight' = NormalizeIssueWeights(weight)
    /\ UNCHANGED <<offers, q_table>>

\* OpponentModel.get_utility(bid)
GetUtilityCall(bid) ==
    /\ call' = Call("get_utility", [NoArgs EXCEPT !.curr = bid])
    /\ err' = "none"
    /\ ret' = GetUtility(weight, value_weights, bid)
    /\ UNCHANGED omvars

\* Issue.update(value) on the record of one issue
IssueUpdateCall(issue, value) ==
    /\ call' = Call("Issue.update", [NoArgs EXCEPT !.issue = issue, !.value = value])
    /\ err' = "none"
    /\ ret' = Zero
    /\ value_weights' = [value_weights EXCEPT ![issue] = IssueUpdate(value_weights[issue], value)]
    /\ UNCHANGED <<offers, weight, q_table>>

\* update called with arbitrary arguments
UpdateAny ==
    /\ Len(offers) < MaxUpdates
    /\ \E prev_bid \in UpdateBids \cup {None}, curr_bid \in UpdateBids \cup {None},
          p \in QParams, df \in DiscountSet, t \in UpdateTimeSet :
            Update(prev_bid, curr_bid, p[1], p[2], df, t)
    /\ UNCHANGED auxvars

\* update called at any elapsed time, with any current bid and a null or
\* non-null previous bid
UpdateAnyTime ==
    /\ Len(offers) < MaxUpdates
    /\ \E prev_bid \in {[price |-> "10", quantity |-> "1"], None},
          curr_bid \in Bids \cup {None}, t \in TimeSet :
            Update(prev_bid, curr_bid, Rat(1, 1), Rat(1, 2), Rat(9, 10), t)
    /\ UNCHANGED auxvars

\* the caller hands over the counterpart's next offer: prev_bid is the offer
\* before it, null for the first one
Deliver ==
    /\ Len(delivered) < MaxDelivered
    /\ \E b \in Bids, t \in TimeSet :
          LET prev_bid == IF delivered = <<>> THEN None ELSE delivered[Len(delivered)]
          IN  /\ Update(prev_bid, b, Rat(1, 1), Rat(1, 2), Rat(9, 10), t)
              /\ delivered' = Append(delivered, b)
    /\ UNCHANGED <<observed, lmvars, histvars>>

NormalizeAny == Normalize /\ UNCHANGED auxvars

GetUtilityAny == \E bid \in Bids \cup {None} : GetUtilityCall(bid) /\ UNCHANGED auxvars

IssueUpdateAny ==
    /\ observed < MaxObserved
    /\ \E issue \in IssueSet : \E value \in Values(issue) \cup {NoValue} :
          IssueUpdateCall(issue, value)
    /\ observed' = observed + 1
    /\ UNCHANGED <<delivered, lmvars, histvars>>

----------------------------------------------------------------------------
(* class LearningModel *)

\* the directories that exist on disk
ExistingDirs == {"store"}
\* the (storage_dir, opponent_agent) arguments tried; NoValue stands for None
PersistArgs == { <<"store", "opA">>, <<"store", "opB">>, <<"missing", "opA">>,
                 <<NoValue, "opA">>, <<"store", NoValue>> }

\* the bids handed to the session object
SessionBids == {[price |-> "10", quantity |-> "1"], None}

\* variant: the file name does not depend on the opponent
PathNoOpponent(storage_dir, opponent_agent) == <<storage_dir, "/", "_data.pkl">>

\* f"{storage_dir}/{opponent_agent}_data.pkl"
Path(storage_dir, opponent_agent) == <<storage_dir, "/", opponent_agent, "_data.pkl">>

\* dict == dict: the same pairs, in any order
DictEq(d1, d2) == {d1[i] : i \in 1..Len(d1)} = {d2[i] : i \in 1..Len(d2)}

RECURSIVE Flatten(_)
\* the keys and values of a dict, one after the other
Flatten(d) == IF d = <<>> THEN <<>> ELSE <<Head(d)[1], Head(d)[2]>> \o Flatten(Tail(d))

\* pickle.dump(data, f): the opcode stream of a dict of strings
PickleDump(d) ==
    <<"EMPTY_DICT">>
    \o (IF d = <<>> THEN <<>> ELSE <<"MARK">> \o Flatten(d) \o <<"SETITEMS">>)
    \o <<"STOP">>

\* pickle.load(f)
PickleLoad(bytes) ==
    IF Len(bytes) = 2 THEN <<>>
    ELSE LET items == SubSeq(bytes, 3, Len(bytes) - 2)
         IN  [i \in 1..(Len(items) \div 2) |-> <<items[2 * i - 1], items[2 * i]>>]

\* the mappings a snapshot of an earlier session may hold
PriorData == { <<<<"accepted", "yes">>>>,
               <<<<"accepted", "no">>, <<"time", "0.5">>>> }

EmptyFS == [p \in {} |-> <<>>]

\* the snapshot files found on disk when the first session starts
InitialFiles ==
    {EmptyFS}
    \cup {[p \in {Path("store", "opA")} |-> PickleDump(d)] : d \in PriorData}

NoAgreement == [set |-> FALSE, accepted_bid |-> None, opponent_accepted |-> FALSE,
                acceptance_time |-> Zero]

NoLMArgs == [storage_dir |-> NoValue, opponent |-> NoValue, bid |-> None,
             opponent_accepted |-> FALSE, held |-> <<>>]

\* LearningModel.__init__
ConstructLM ==
    /\ received_bids = <<>>
    /\ my_bids = <<>>
    /\ data = <<>>
    /\ agreement = NoAgreement
    /\ loaded = <<>>
    /\ persisted = FALSE
    /\ saves = 0
    /\ lastSave = [p \in {} |-> <<>>]

\* a further LearningModel object, for the next negotiation session
NewSession ==
    /\ received_bids' = <<>>
    /\ my_bids' = <<>>
    /\ data' = <<>>
    /\ agreement' = NoAgreement
    /\ loaded' = <<>>
    /\ persisted' = FALSE
    /\ call' = Call("init", NoLMArgs)
    /\ err' = "none"
    /\ ret' = <<>>
    /\ UNCHANGED <<fs, lastSave, saves>>

\* variant: the log is restarted with the received bid
ReceiveBidRestart(curr_bid, prev_bid, reward, lr, df) ==
    /\ call' = Call("receive_bid", [NoLMArgs EXCEPT !.bid = curr_bid])
    /\ err' = "none"
    /\ ret' = <<>>
    /\ received_bids' = IF curr_bid # None THEN <<curr_bid>> ELSE <<>>
    /\ UNCHANGED <<my_bids, data, agreement>>

\* receive_bid(curr_bid, prev_bid, reward, learning_rate, discount_factor)
ReceiveBid(curr_bid, prev_bid, reward, lr, df) ==
    /\ call' = Call("receive_bid", [NoLMArgs EXCEPT !.bid = curr_bid])
    /\ err' = "none"
    /\ ret' = <<>>
    /\ received_bids' = IF curr_bid # None THEN Append(received_bids, curr_bid)
                        ELSE received_bids
    /\ UNCHANGED <<my_bids, data, agreement>>

\* save_bid(bid)
SaveBid(bid) ==
    /\ call' = Call("save_bid", [NoLMArgs EXCEPT !.bid = bid])
    /\ err' = "none"
    /\ ret' = <<>>
    /\ my_bids' = Append(my_bids, bid)
    /\ UNCHANGED <<received_bids, data, agreement>>

\* variant: the outcome is also entered into the learned data
ReachAgreementRecorded(accepted_bid, opponent_accepted, t) ==
    /\ call' = Call("reach_agreement", [NoLMArgs EXCEPT !.bid = accepted_bid,
                                           !.opponent_accepted = opponent_accepted])
    /\ err' = "none"
    /\ ret' = <<>>
    /\ agreement' = [set |-> TRUE, accepted_bid |-> accepted_bid,
                     opponent_accepted |-> opponent_accepted, acceptance_time |-> t]
    /\ data' = <<<<"accepted", "yes">>>>
    /\ UNCHANGED <<received_bids, my_bids>>

\* reach_agreement(accepted_bid, opponent_accepted), get_time(progress) being t
ReachAgreement(accepted_bid, opponent_accepted, t) ==
    /\ call' = Call("reach_agreement", [NoLMArgs EXCEPT !.bid = accepted_bid,
                                           !.opponent_accepted = opponent_accepted])
    /\ err' = "none"
    /\ ret' = <<>>
    /\ agreement' = [set |-> TRUE, accepted_bid |-> accepted_bid,
                     opponent_accepted |-> opponent_accepted, acceptance_time |-> t]
    /\ UNCHANGED <<received_bids, my_bids, data>>

\* does open(path, "wb") fail
OpenForWriteRaises(storage_dir) == storage_dir \notin ExistingDirs

\* save_data(storage_dir, opponent_agent)
SaveData(storage_dir, opponent_agent) ==
    /\ call' = Call("save_data", [NoLMArgs EXCEPT !.storage_dir = storage_dir,
                                     !.opponent = opponent_agent, !.held = data])
    /\ ret' = <<>>
    /\ persisted' = TRUE
    /\ saves' = saves + 1
    /\ IF opponent_agent = NoValue \/ storage_dir = NoValue
       THEN /\ err' = "none"
            /\ UNCHANGED <<fs, lastSave>>
       ELSE LET path == Path(storage_dir, opponent_agent)
                key == <<storage_dir, opponent_agent>>
                done == ~OpenForWriteRaises(storage_dir)
                entry == [d |-> data, done |-> done, seq |-> saves + 1]
            IN  /\ err' = IF done THEN "none" ELSE "FileNotFoundError"
                /\ fs' = IF done
                         THEN [p \in DOMAIN fs \cup {path} |->
                                 IF p = path THEN PickleDump(data) ELSE fs[p]]
                         ELSE fs
                /\ lastSave' = [k \in DOMAIN lastSave \cup {key} |->
                                 IF k = key THEN entry ELSE lastSave[k]]
    /\ UNCHANGED <<lmvars, loaded>>

\* what load_data leaves in self.data
LoadedData(files, storage_dir, opponent_agent) ==
    IF storage_dir = NoValue \/ opponent_agent = NoValue THEN <<>>
    ELSE IF Path(storage_dir, opponent_agent) \in DOMAIN files
         THEN PickleLoad(files[Path(storage_dir, opponent_agent)])
         ELSE <<>>

\* variant: self.data is not reset before the lookup
LoadDataNoReset(storage_dir, opponent_agent) ==
    /\ call' = Call("load_data", [NoLMArgs EXCEPT !.storage_dir = storage_dir,
                                     !.opponent = opponent_agent, !.held = data])
    /\ err' = "none"
    /\ data' = IF storage_dir # NoValue /\ opponent_agent # NoValue
                  /\ Path(storage_dir, opponent_agent) \in DOMAIN fs
               THEN LoadedData(fs, storage_dir, opponent_agent)
               ELSE data
    /\ ret' = data'
    /\ loaded' = data'
    /\ UNCHANGED <<received_bids, my_bids, agreement, fs, lastSave, persisted, saves>>

\* load_data(storage_dir, opponent_agent)
LoadData(storage_dir, opponent_agent) ==
    /\ call' = Call("load_data", [NoLMArgs EXCEPT !.storage_dir = storage_dir,
                                     !.opponent = opponent_agent, !.held = data])
    /\ err' = "none"
    /\ data' = LoadedData(fs, storage_dir, opponent_agent)
    /\ ret' = data'
    /\ loaded' = data'
    /\ UNCHANGED <<received_bids, my_bids, agreement, fs, lastSave, persisted, saves>>

omaux == <<omvars, delivered, observed>>

ReceiveBidAny ==
    /\ Len(received_bids) + Len(my_bids) < MaxBids
    /\ \E curr_bid \in SessionBids :
          ReceiveBid(curr_bid, None, Rat(1, 1), Rat(1, 2), Rat(9, 10))
    /\ UNCHANGED <<histvars, omaux>>

SaveBidAny ==
    /\ Len(received_bids) + Len(my_bids) < MaxBids
    /\ \E bid \in SessionBids : SaveBid(bid)
    /\ UNCHANGED <<histvars, omaux>>

ReachAgreementAny ==
    /\ \E opponent_accepted \in BOOLEAN :
          ReachAgreement([price |-> "10", quantity |-> "1"], opponent_accepted, Rat(1, 2))
    /\ UNCHANGED <<histvars, omaux>>

SaveDataAny ==
    /\ saves < MaxSaves
    /\ \E a \in PersistArgs : SaveData(a[1], a[2])
    /\ UNCHANGED omaux

LoadDataAny ==
    /\ \E a \in PersistArgs : LoadData(a[1], a[2])
    /\ UNCHANGED omaux

NewSessionAny == NewSession /\ UNCHANGED omaux

\* the state after both objects are constructed, no snapshot on disk
Init ==
    /\ ConstructOM
    /\ ConstructLM
    /\ fs = EmptyFS
    /\ call = Call("init", NoArgs)
    /\ err = "none"
    /\ ret = Zero

\* the same, with the snapshots of earlier sessions on disk
InitLM ==
    /\ ConstructOM
    /\ ConstructLM
    /\ fs \in InitialFiles
    /\ call = Call("init", NoLMArgs)
    /\ err = "none"
    /\ ret = <<>>

Next == UpdateAny

Spec == Init /\ [][Next]_vars

NextUtility == UpdateAnyTime \/ GetUtilityAny

SpecUtility == Init /\ [][NextUtility]_vars

NextSession == Deliver \/ NormalizeAny

SpecSession == Init /\ [][NextSession]_vars

NextIssue == IssueUpdateAny \/ NormalizeAny

SpecIssue == Init /\ [][NextIssue]_vars

NextLM ==
    \/ ReceiveBidAny
    \/ SaveBidAny
    \/ ReachAgreementAny
    \/ SaveDataAny
    \/ LoadDataAny
    \/ NewSessionAny

SpecLM == InitLM /\ [][NextLM]_vars

----------------------------------------------------------------------------
(* Claims about OpponentModel *)

BothBids(c) == c.op = "update" /\ c.args.prev # None /\ c.args.curr # None

\* the weights the claim expects after offer k of ds arrived at time t
ExpectedWeights(w, ds, t) ==
    LET k == Len(ds)
        step == RMul(Rat(1, 10), RSub(One, RMul(Rat(3, 1), t)))
    IN  [i \in IssueSet |->
            IF ds[k - 1][i] = ds[k][i] THEN RAdd(w[i], step) ELSE w[i]]

\* C1: when the counterpart's offers are delivered in order, the call for
\* offer k >= 2 adds alpha * (1 - 3t) to the weight of every issue on which
\* offers k-1 and k agree, and leaves the other weights unchanged.
C1_EveryPairCounts ==
    [][(call'.op = "update" /\ Len(delivered') = Len(delivered) + 1 /\ Len(delivered') >= 2)
        => weight' = ExpectedWeights(weight, delivered', call'.args.t)]_vars

\* C2: normalize() never meets a zero denominator and leaves the issue
\* weights summing to 1.0.
C2_NormalizeSumsToOne ==
    call.op = "normalize" =>
        /\ err = "none"
        /\ RAdd(weight["price"], weight["quantity"]) = One

\* Q[s, a] as q_table.get((s, a), 0.0) reads it
ReadQ(q, s, a) == IF <<s, a>> \in DOMAIN q THEN q[<<s, a>>] ELSE Zero

\* the key (state, action) of a bid
KeyOf(bid) == <<<<bid["price"], bid["quantity"]>>, bid["price"]>>

\* the largest Q[state(bid), a] over the values a of the first issue
BestNext(q, bid) ==
    LET s == <<bid["price"], bid["quantity"]>>
    IN  IF RLess(ReadQ(q, s, "10"), ReadQ(q, s, "20"))
        THEN ReadQ(q, s, "20") ELSE ReadQ(q, s, "10")

\* reward + df * M
Target(q, a) == RAdd(a.reward, RMul(a.df, BestNext(q, a.curr)))

\* (1 - lr) * old + lr * (reward + df * M)
Blend(q, a) ==
    RAdd(RMul(RSub(One, a.lr), ReadQ(q, KeyOf(a.prev)[1], KeyOf(a.prev)[2])),
         RMul(a.lr, Target(q, a)))

\* C3: an update with two non-null bids sets Q[state(prev), action(prev)] to
\* (1 - lr) * old + lr * (reward + df * M), M being the largest Q[state(curr), a]
\* over the first issue's values as read before the write; with lr = 1 the
\* result is reward + df * M.
C3_QUpdateRule ==
    [][BothBids(call')
        => /\ q_table'[KeyOf(call'.args.prev)] = Blend(q_table, call'.args)
           /\ call'.args.lr = One
                => q_table'[KeyOf(call'.args.prev)] = Target(q_table, call'.args)]_vars

\* an update with lr = 1 whose previous and current bid are the same, made
\* when the entry already held a value
C3_Witness ==
    /\ BothBids(call)
    /\ call.args.prev = call.args.curr
    /\ call.args.lr = One
    /\ Len(offers) >= 2
    /\ q_table[KeyOf(call.args.prev)] \notin {Zero, call.args.reward}

\* q2 is q with the entry at key written and nothing else touched
OnlyWritten(q, q2, key) ==
    /\ DOMAIN q2 = DOMAIN q \cup {key}
    /\ \A k \in DOMAIN q \ {key} : q2[k] = q[k]
    /\ \A b \in Bids, v \in Values("price") :
          <<<<b["price"], b["quantity"]>>, v>> \notin DOMAIN q2
            => QGet(q2, <<GetStateRepresentation(b), v>>) = Zero

\* C8: the Q-table starts empty; an update with a null bid leaves it alone;
\* an update with two non-null bids writes the entry of (state(prev),
\* prev's value on the first issue) and no other: no entry is removed or
\* changed, and a pair never written reads 0.0.
C8_OneEntryWritten ==
    /\ q_table = EmptyQ
    /\ [][IF BothBids(call')
          THEN OnlyWritten(q_table, q_table', KeyOf(call'.args.prev))
          ELSE q_table' = q_table]_vars

\* an update that wrote a second entry beside an earlier one
C8_Witness ==
    /\ BothBids(call)
    /\ Cardinality(DOMAIN q_table) = 2

\* C9: update never changes a value weight: all are 1.0 in every state, so
\* get_utility gives every non-null bid of the domain the same score, the
\* sum of the issue weights.
C9_UtilityIgnoresValues ==
    /\ \A i \in IssueSet : \A v \in Values(i) : value_weights[i][v] = One
    /\ \A b \in Bids :
          GetUtility(weight, value_weights, b) = RAdd(weight["price"], weight["quantity"])
    /\ (call.op = "get_utility" /\ call.args.curr # None)
          => ret = RAdd(weight["price"], weight["quantity"])

\* get_utility called on a bid after updates have moved the issue weights
C9_Witness ==
    /\ call.op = "get_utility"
    /\ call.args.curr # None
    /\ Len(offers) >= 2
    /\ weight["price"] # weight["quantity"]

----------------------------------------------------------------------------
(* Claims about LearningModel *)

IsPrefix(s1, s2) == Len(s1) <= Len(s2) /\ SubSeq(s2, 1, Len(s1)) = s1

\* the (storage_dir, opponent) pair the latest call was made for
CallKey == <<call.args.storage_dir, call.args.opponent>>

C6_LoadOfNothingIsEmpty ==
    (call.op = "load_data"
       /\ (\/ call.args.storage_dir = NoValue
           \/ call.args.opponent = NoValue
           \/ <<call.args.storage_dir, "/", call.args.opponent, "_data.pkl">> \notin DOMAIN fs))
        => /\ err = "none"
           /\ ret = <<>>
           /\ data = <<>>

\* such a load made in a directory that does not exist, while LearnedData
\* held a mapping
C6_Witness ==
    /\ call.op = "load_data"
    /\ call.args.storage_dir = "missing"
    /\ call.args.opponent # NoValue
    /\ call.args.held # <<>>
    /\ data = <<>>

\* C7, as stated: once reach_agreement has been called no bid is recorded any
\* more, and once save_data has been called no operation of an earlier phase
\* changes the session object.
C7_PhasesEnforced ==
    [][call'.op # "init"
        => /\ agreement.set => (received_bids' = received_bids /\ my_bids' = my_bids)
           /\ (persisted /\ call'.op # "save_data")
                => (received_bids' = received_bids /\ my_bids' = my_bids
                    /\ data' = data /\ agreement' = agreement)]_vars

\* C7, amended: the session object never steps back: no call removes or alters
\* a recorded bid, none clears a recorded agreement, and save_data changes no
\* field of the object.
C7_NeverBackward ==
    [][call'.op # "init"
        => /\ IsPrefix(received_bids, received_bids')
           /\ IsPrefix(my_bids, my_bids')
           /\ agreement.set => agreement'.set
           /\ call'.op = "save_data"
                => (received_bids' = received_bids /\ my_bids' = my_bids
                    /\ data' = data /\ agreement' = agreement)]_vars

\* a second bid recorded by receive_bid after reach_agreement and save_data
C7_Witness ==
    /\ call.op = "receive_bid"
    /\ call.args.bid # None
    /\ Len(received_bids) = 2
    /\ agreement.set
    /\ persisted

\* C10: LearnedData is what the session's latest load_data returned (empty
\* if there was none): receive_bid, save_bid, reach_agreement and save_data
\* leave it alone, so that is what save_data writes.
C10_DataOnlyFromLoad ==
    /\ data = loaded
    /\ (call.op = "save_data" /\ err = "none"
          /\ call.args.storage_dir # NoValue /\ call.args.opponent # NoValue)
        => DictEq(PickleLoad(fs[<<call.args.storage_dir, "/", call.args.opponent,
                                   "_data.pkl">>]), loaded)

\* a non-empty mapping written by save_data after a bid and an agreement
\* were recorded
C10_Witness ==
    /\ call.op = "save_data"
    /\ err = "none"
    /\ call.args.storage_dir # NoValue
    /\ call.args.opponent # NoValue
    /\ loaded # <<>>
    /\ agreement.set
    /\ received_bids # <<>>

====
